---- MODULE Spec2Model ----
(***************************************************************************)
(* morph.py: a codec between mainframe field encodings (EBCDIC text, zoned *)
(* decimal, packed decimal, big-endian binary) and decimal strings.        *)
(*                                                                         *)
(* A Python str is a sequence of characters; a character is a one-element  *)
(* TLA+ string, or the token "U+XXXX" for a code point that is not         *)
(* printable ASCII.  A bytearray is a sequence of 0..255.  A Python int is *)
(* unbounded: it is a record [neg, mag] whose magnitude is a big-endian    *)
(* sequence of base-256 digits without leading zeros.                      *)
(***************************************************************************)
EXTENDS Integers, Sequences, FiniteSets, TLC

VARIABLES pc, args, mid, result, stdout

vars == <<pc, args, mid, result, stdout>>

(***************************************************************************)
(* Bounds of the explored inputs.                                          *)
(***************************************************************************)
MaxValLen == 3
MaxBufLen == 2
MaxDec == 2
MaxPad == 3
MaxFill == 9

(***************************************************************************)
(* Outcomes of a call: a returned str, a returned bytearray, an exception  *)
(* propagating to the caller, or exit() ending the process.                *)
(***************************************************************************)
StrResult(s) == [kind |-> "str", val |-> s, exc |-> "none"]
BytesResult(b) == [kind |-> "bytes", val |-> b, exc |-> "none"]
Raise(e) == [kind |-> "raise", val |-> <<>>, exc |-> e]
Exit == [kind |-> "exit", val |-> <<>>, exc |-> "SystemExit"]
NoResult == [kind |-> "none", val |-> <<>>, exc |-> "none"]

Min(a, b) == IF a < b THEN a ELSE b
Max(a, b) == IF a > b THEN a ELSE b

(***************************************************************************)
(* Python slicing s[lo:hi] with negative indices counted from the end and  *)
(* out-of-range indices clamped; s[:hi] is Slice(s, 0, hi) and s[lo:] is   *)
(* SliceFrom(s, lo).                                                       *)
(***************************************************************************)
PyIndex(i, n) == IF i < 0 THEN Max(i + n, 0) ELSE Min(i, n)
Slice(s, lo, hi) ==
  LET a == PyIndex(lo, Len(s))
      b == PyIndex(hi, Len(s))
  IN  IF a < b THEN SubSeq(s, a + 1, b) ELSE <<>>
SliceFrom(s, lo) ==
  LET a == PyIndex(lo, Len(s))
  IN  IF a < Len(s) THEN SubSeq(s, a + 1, Len(s)) ELSE <<>>

Repeat(c, n) == [i \in 1..n |-> c]

(***************************************************************************)
(* bytes.hex() and bytearray.fromhex().                                    *)
(***************************************************************************)
HexDigits == <<"0", "1", "2", "3", "4", "5", "6", "7", "8", "9", "a", "b", "c", "d", "e", "f">>
UpperHexDigits == <<"0", "1", "2", "3", "4", "5", "6", "7", "8", "9", "A", "B", "C", "D", "E", "F">>
DecimalDigits == {"0", "1", "2", "3", "4", "5", "6", "7", "8", "9"}

IsHexDigit(c) == \E i \in 1..16 : HexDigits[i] = c \/ UpperHexDigits[i] = c
HexVal(c) == (CHOOSE i \in 1..16 : HexDigits[i] = c \/ UpperHexDigits[i] = c) - 1

\* hex() with the two nibbles of every byte in the wrong order
hex_swapped(bytes) ==
  [i \in 1..(2 * Len(bytes)) |->
     IF i % 2 = 1 THEN HexDigits[(bytes[(i + 1) \div 2] % 16) + 1]
                  ELSE HexDigits[(bytes[i \div 2] \div 16) + 1]]

hex(bytes) ==
  [i \in 1..(2 * Len(bytes)) |->
     IF i % 2 = 1 THEN HexDigits[(bytes[(i + 1) \div 2] \div 16) + 1]
                  ELSE HexDigits[(bytes[i \div 2] % 16) + 1]]

Whitespace == {"U+0009", "U+000A", "U+000B", "U+000C", "U+000D", "U+001C", "U+001D", "U+001E", "U+001F", " ", "U+0085", "U+00A0"}
AsciiWhitespace == {"U+0009", "U+000A", "U+000B", "U+000C", "U+000D", " "}

RECURSIVE SkipSpaces(_, _)
SkipSpaces(s, i) == IF i <= Len(s) /\ s[i] \in AsciiWhitespace THEN SkipSpaces(s, i + 1) ELSE i

RECURSIVE FromHexAt(_, _, _)
FromHexAt(s, i, acc) ==
  LET j == SkipSpaces(s, i)
  IN  IF j > Len(s) THEN BytesResult(acc)
      ELSE IF ~IsHexDigit(s[j]) THEN Raise("ValueError")
      ELSE IF j + 1 > Len(s) \/ ~IsHexDigit(s[j + 1]) THEN Raise("ValueError")
      ELSE FromHexAt(s, j + 2, Append(acc, 16 * HexVal(s[j]) + HexVal(s[j + 1])))

fromhex(s) == FromHexAt(s, 1, <<>>)

(***************************************************************************)
(* The cp037 codec: Cp037[b + 1] is the character byte b decodes to.  The  *)
(* table is total on 0..255; a character outside it does not encode.       *)
(***************************************************************************)
Cp037 ==
  << "U+0000", "U+0001", "U+0002", "U+0003", "U+009C", "U+0009", "U+0086", "U+007F",
     "U+0097", "U+008D", "U+008E", "U+000B", "U+000C", "U+000D", "U+000E", "U+000F",
     "U+0010", "U+0011", "U+0012", "U+0013", "U+009D", "U+0085", "U+0008", "U+0087",
     "U+0018", "U+0019", "U+0092", "U+008F", "U+001C", "U+001D", "U+001E", "U+001F",
     "U+0080", "U+0081", "U+0082", "U+0083", "U+0084", "U+000A", "U+0017", "U+001B",
     "U+0088", "U+0089", "U+008A", "U+008B", "U+008C", "U+0005", "U+0006", "U+0007",
     "U+0090", "U+0091", "U+0016", "U+0093", "U+0094", "U+0095", "U+0096", "U+0004",
     "U+0098", "U+0099", "U+009A", "U+009B", "U+0014", "U+0015", "U+009E", "U+001A",
     " ", "U+00A0", "U+00E2", "U+00E4", "U+00E0", "U+00E1", "U+00E3", "U+00E5",
     "U+00E7", "U+00F1", "U+00A2", ".", "U+003C", "U+0028", "+", "U+007C",
     "U+0026", "U+00E9", "U+00EA", "U+00EB", "U+00E8", "U+00ED", "U+00EE", "U+00EF",
     "U+00EC", "U+00DF", "U+0021", "U+0024", "U+002A", "U+0029", ";", "U+00AC",
     "-", "U+002F", "U+00C2", "U+00C4", "U+00C0", "U+00C1", "U+00C3", "U+00C5",
     "U+00C7", "U+00D1", "U+00A6", "U+002C", "U+0025", "_", "U+003E", "U+003F",
     "U+00F8", "U+00C9", "U+00CA", "U+00CB", "U+00C8", "U+00CD", "U+00CE", "U+00CF",
     "U+00CC", "U+0060", "U+003A", "U+0023", "U+0040", "U+0027", "U+003D", "U+0022",
     "U+00D8", "a", "b", "c", "d", "e", "f", "g",
     "h", "i", "U+00AB", "U+00BB", "U+00F0", "U+00FD", "U+00FE", "U+00B1",
     "U+00B0", "j", "k", "l", "m", "n", "o", "p",
     "q", "r", "U+00AA", "U+00BA", "U+00E6", "U+00B8", "U+00C6", "U+00A4",
     "U+00B5", "U+007E", "s", "t", "u", "v", "w", "x",
     "y", "z", "U+00A1", "U+00BF", "U+00D0", "U+00DD", "U+00DE", "U+00AE",
     "U+005E", "U+00A3", "U+00A5", "U+00B7", "U+00A9", "U+00A7", "U+00B6", "U+00BC",
     "U+00BD", "U+00BE", "U+005B", "U+005D", "U+00AF", "U+00A8", "U+00B4", "U+00D7",
     "{", "A", "B", "C", "D", "E", "F", "G",
     "H", "I", "U+00AD", "U+00F4", "U+00F6", "U+00F2", "U+00F3", "U+00F5",
     "}", "J", "K", "L", "M", "N", "O", "P",
     "Q", "R", "U+00B9", "U+00FB", "U+00FC", "U+00F9", "U+00FA", "U+00FF",
     "U+005C", "U+00F7", "S", "T", "U", "V", "W", "X",
     "Y", "Z", "U+00B2", "U+00D4", "U+00D6", "U+00D2", "U+00D3", "U+00D5",
     "0", "1", "2", "3", "4", "5", "6", "7",
     "8", "9", "U+00B3", "U+00DB", "U+00DC", "U+00D9", "U+00DA", "U+009F" >>

decode(bytes) == [i \in 1..Len(bytes) |-> Cp037[bytes[i] + 1]]

Encodable(c) == \E b \in 0..255 : Cp037[b + 1] = c
EncodeChar(c) == CHOOSE b \in 0..255 : Cp037[b + 1] = c
encode(s) ==
  IF \A i \in 1..Len(s) : Encodable(s[i])
  THEN BytesResult([i \in 1..Len(s) |-> EncodeChar(s[i])])
  ELSE Raise("UnicodeEncodeError")

(***************************************************************************)
(* str methods used by the codec.                                          *)
(***************************************************************************)
RECURSIVE replace(_, _)
replace(s, c) ==
  IF s = <<>> THEN <<>>
  ELSE IF Head(s) = c THEN replace(Tail(s), c)
  ELSE <<Head(s)>> \o replace(Tail(s), c)

RECURSIVE rstrip(_)
rstrip(s) ==
  IF s # <<>> /\ s[Len(s)] \in Whitespace THEN rstrip(SubSeq(s, 1, Len(s) - 1)) ELSE s

RECURSIVE lstrip(_)
lstrip(s) == IF s # <<>> /\ Head(s) \in Whitespace THEN lstrip(Tail(s)) ELSE s

startswith(s, c) == s # <<>> /\ Head(s) = c

zfill(s, width) ==
  IF Len(s) >= width THEN s
  ELSE IF s # <<>> /\ Head(s) \in {"+", "-"}
       THEN <<Head(s)>> \o Repeat("0", width - Len(s)) \o Tail(s)
       ELSE Repeat("0", width - Len(s)) \o s

ljust(bytes, width, fill) ==
  IF Len(bytes) >= width THEN bytes ELSE bytes \o Repeat(fill, width - Len(bytes))

(***************************************************************************)
(* Python's unbounded int: [neg, mag], mag big-endian base 256, no leading *)
(* zero digit, zero is the empty magnitude and is never negative.          *)
(***************************************************************************)
RECURSIVE Normalize(_)
Normalize(m) == IF m # <<>> /\ Head(m) = 0 THEN Normalize(Tail(m)) ELSE m

PadTo(m, n) == Repeat(0, n - Len(m)) \o m

MkInt(neg, mag) == [neg |-> neg /\ mag # <<>>, mag |-> mag]

RECURSIVE LexCmp(_, _, _)
LexCmp(a, b, i) ==
  IF i > Len(a) THEN 0
  ELSE IF a[i] < b[i] THEN -1
  ELSE IF a[i] > b[i] THEN 1
  ELSE LexCmp(a, b, i + 1)

MagCmp(a, b) ==
  IF Len(a) < Len(b) THEN -1
  ELSE IF Len(a) > Len(b) THEN 1
  ELSE LexCmp(a, b, 1)

RECURSIVE Carry(_, _, _)
Carry(a, b, i) == IF i > Len(a) THEN 0 ELSE (a[i] + b[i] + Carry(a, b, i + 1)) \div 256

MagAdd(a, b) ==
  LET n == Max(Len(a), Len(b))
      x == PadTo(a, n)
      y == PadTo(b, n)
  IN  Normalize(<<Carry(x, y, 1)>> \o [i \in 1..n |-> (x[i] + y[i] + Carry(x, y, i + 1)) % 256])

RECURSIVE Borrow(_, _, _)
Borrow(a, b, i) ==
  IF i > Len(a) THEN 0
  ELSE IF a[i] - b[i] - Borrow(a, b, i + 1) < 0 THEN 1 ELSE 0

\* a - b for magnitudes with a >= b
MagSub(a, b) ==
  LET n == Len(a)
      y == PadTo(b, n)
  IN  Normalize([i \in 1..n |-> (a[i] - y[i] - Borrow(a, y, i + 1) + 256) % 256])

IntAdd(x, y) ==
  IF x.neg = y.neg THEN MkInt(x.neg, MagAdd(x.mag, y.mag))
  ELSE IF MagCmp(x.mag, y.mag) >= 0 THEN MkInt(x.neg, MagSub(x.mag, y.mag))
  ELSE MkInt(y.neg, MagSub(y.mag, x.mag))

IntSub(x, y) == IntAdd(x, MkInt(~y.neg, y.mag))

IntOne == MkInt(FALSE, <<1>>)

\* int("0x" + h, 0) for the hex text h of a byte sequence; "0x" alone is no literal
IntOfHex(bytes) ==
  IF bytes = <<>> THEN Raise("ValueError")
  ELSE [kind |-> "int", val |-> MkInt(FALSE, Normalize(bytes)), exc |-> "none"]

RECURSIVE RemPrefix(_, _)
RemPrefix(m, i) == IF i = 0 THEN 0 ELSE (RemPrefix(m, i - 1) * 256 + m[i]) % 10

Quot10(m) == Normalize([i \in 1..Len(m) |-> (RemPrefix(m, i - 1) * 256 + m[i]) \div 10])

RECURSIVE MagToDecimal(_)
MagToDecimal(m) ==
  IF m = <<>> THEN <<>>
  ELSE MagToDecimal(Quot10(m)) \o <<HexDigits[RemPrefix(m, Len(m)) + 1]>>

\* str(n)
str(n) ==
  IF n.mag = <<>> THEN <<"0">>
  ELSE (IF n.neg THEN <<"-">> ELSE <<>>) \o MagToDecimal(n.mag)

RECURSIVE MulCarry(_, _, _)
MulCarry(m, i, d) == IF i > Len(m) THEN d ELSE (m[i] * 10 + MulCarry(m, i + 1, d)) \div 256

\* m * 10 + d
MulAdd10(m, d) ==
  Normalize(<<MulCarry(m, 1, d)>> \o [i \in 1..Len(m) |-> (m[i] * 10 + MulCarry(m, i + 1, d)) % 256])

RECURSIVE MagFromDecimal(_, _, _)
MagFromDecimal(s, i, acc) ==
  IF i > Len(s) THEN acc ELSE MagFromDecimal(s, i + 1, MulAdd10(acc, HexVal(s[i])))

\* int(value): surrounding whitespace, an optional sign, then decimal digits
int(value) ==
  LET t == rstrip(lstrip(value))
      signed == t # <<>> /\ Head(t) \in {"+", "-"}
      digits == IF signed THEN Tail(t) ELSE t
  IN  IF digits = <<>> \/ \E i \in 1..Len(digits) : digits[i] \notin DecimalDigits
      THEN Raise("ValueError")
      ELSE [kind |-> "int", val |-> MkInt(signed /\ Head(t) = "-", MagFromDecimal(digits, 1, <<>>)), exc |-> "none"]

TwoPow63 == <<128, 0, 0, 0, 0, 0, 0, 0>>
TwoPow64 == <<1, 0, 0, 0, 0, 0, 0, 0, 0>>

\* struct.pack(">Q", n)
struct_pack_Q(n) ==
  IF n.neg \/ Len(n.mag) > 8 THEN Raise("struct.error") ELSE BytesResult(PadTo(n.mag, 8))

\* struct.pack(">q", n)
struct_pack_q(n) ==
  IF ~n.neg
  THEN IF MagCmp(n.mag, TwoPow63) < 0 THEN BytesResult(PadTo(n.mag, 8)) ELSE Raise("struct.error")
  ELSE IF MagCmp(n.mag, TwoPow63) <= 0
       THEN BytesResult(PadTo(MagSub(TwoPow64, n.mag), 8))
       ELSE Raise("struct.error")

(***************************************************************************)
(* str comparison a <= b: by code point, a proper prefix being smaller.    *)
(* It is applied to lowercase hexadecimal text only.                       *)
(***************************************************************************)
CodePoint(c) == IF c \in DecimalDigits THEN 48 + HexVal(c) ELSE 87 + HexVal(c)

RECURSIVE StrLE(_, _)
StrLE(a, b) ==
  IF a = <<>> THEN TRUE
  ELSE IF b = <<>> THEN FALSE
  ELSE IF CodePoint(Head(a)) < CodePoint(Head(b)) THEN TRUE
  ELSE IF CodePoint(Head(a)) > CodePoint(Head(b)) THEN FALSE
  ELSE StrLE(Tail(a), Tail(b))

\* bin(n).replace("0b", "") for a byte n
RECURSIVE bin(_)
bin(n) == IF n < 2 THEN <<HexDigits[n + 1]>> ELSE bin(n \div 2) \o <<HexDigits[(n % 2) + 1]>>

\* sep.join(s) for a str s
RECURSIVE join(_, _)
join(sep, s) == IF Len(s) <= 1 THEN s ELSE <<Head(s), sep>> \o join(sep, Tail(s))

(***************************************************************************)
(* morph.py                                                                *)
(***************************************************************************)
HighestPositive ==
  <<"7", "f", "f", "f", "f", "f", "f", "f", "f", "f", "f", "f", "f", "f", "f", "f", "f", "f", "f", "f">>

\* type.lower(), on the format tags the calls are made with
lower(type) ==
  CASE type = "PD+" -> "pd+"
    [] OTHER -> type

\* add_dec_places counting the decimal places from the front of the value
add_dec_places_front(value, decimal_places) ==
  IF decimal_places = 0 THEN value
  ELSE Slice(value, 0, decimal_places) \o <<".">> \o SliceFrom(value, decimal_places)

add_dec_places(value, decimal_places) ==
  IF decimal_places = 0 THEN value
  ELSE Slice(value, 0, Len(value) - decimal_places) \o <<".">>
         \o SliceFrom(value, Len(value) - decimal_places)

\* the text branch of unpack
unpack_ch(bytes, remove_lv) ==
  IF remove_lv THEN rstrip(replace(decode(bytes), "U+0000")) ELSE decode(bytes)

\* the value the packed-decimal branch of unpack hands to add_dec_places
unpack_pd(bytes) ==
  (IF SliceFrom(hex(bytes), -1) \notin {<<"d">>, <<"b">>} THEN <<>> ELSE <<"-">>)
    \o Slice(hex(bytes), 0, -1)

\* the guard of the branch of unpack that reads the bytes as a non-negative number
is_unsigned_branch(bytes, type) ==
  lower(type) = "bi"
    \/ (lower(type) = "bi+" /\ StrLE(hex(bytes), Slice(HighestPositive, 0, Len(bytes) * 2)))

\* the value that branch hands to add_dec_places
unpack_bi(bytes) ==
  IF IntOfHex(bytes).kind = "raise" THEN IntOfHex(bytes)
  ELSE StrResult(str(IntOfHex(bytes).val))

\* the value the two's-complement branch of unpack hands to add_dec_places
unpack_bi_negative(bytes) ==
  StrResult(str(IntSub(IntSub(IntOfHex(bytes).val, IntOfHex(Repeat(255, Len(bytes))).val), IntOne)))

\* the value the zoned branch of unpack hands to add_dec_places
unpack_zd(bytes) == rstrip(replace(decode(bytes), "U+0000"))

\* the value the signed zoned branch of unpack hands to add_dec_places
unpack_zd_signed(bytes) ==
  (IF Slice(hex(bytes), -2, -1) # <<"d">> THEN <<>> ELSE <<"-">>)
    \o decode(Slice(bytes, 0, -1)) \o SliceFrom(hex(bytes), -1)

\* the bit branch of unpack
unpack_bit(bytes) ==
  IF bytes = <<>> THEN Raise("IndexError")
  ELSE StrResult(join(";", zfill(bin(bytes[1]), Len(bytes) * 8)))

\* the value unpack hands to add_dec_places, for the formats that insert a point
insertion_input(bytes, type) ==
  IF lower(type) = "pd" \/ lower(type) = "pd+" THEN StrResult(unpack_pd(bytes))
  ELSE IF is_unsigned_branch(bytes, type) THEN unpack_bi(bytes)
  ELSE IF lower(type) = "bi+" THEN unpack_bi_negative(bytes)
  ELSE IF lower(type) = "zd" THEN StrResult(unpack_zd(bytes))
  ELSE StrResult(unpack_zd_signed(bytes))

unpack(bytes, type, dec_places, remove_lv, remove_spaces) ==
  IF lower(type) = "ch" THEN StrResult(unpack_ch(bytes, remove_lv))
  ELSE IF lower(type) = "pd" \/ lower(type) = "pd+"
  THEN StrResult(add_dec_places(unpack_pd(bytes), dec_places))
  ELSE IF is_unsigned_branch(bytes, type)
  THEN IF unpack_bi(bytes).kind = "raise" THEN unpack_bi(bytes)
       ELSE StrResult(add_dec_places(unpack_bi(bytes).val, dec_places))
  ELSE IF lower(type) = "bi+"
  THEN StrResult(add_dec_places(unpack_bi_negative(bytes).val, dec_places))
  ELSE IF lower(type) = "zd" THEN StrResult(add_dec_places(unpack_zd(bytes), dec_places))
  ELSE IF lower(type) = "zd+"
  THEN StrResult(add_dec_places(unpack_zd_signed(bytes), dec_places))
  ELSE IF lower(type) = "hex" THEN StrResult(hex(bytes))
  ELSE IF lower(type) = "bit" THEN unpack_bit(bytes)
  ELSE [Exit EXCEPT !.val = <<"Length & Type not supported", "Length: ", Len(bytes), "Type: ", type>>]

\* the text branch of pack
pack_ch(value, pad_length) ==
  IF encode(value).kind = "raise" THEN encode(value)
  ELSE BytesResult(ljust(encode(value).val, pad_length, 0))

\* the packed-decimal branch of pack padding without room for the sign nibble
pack_pd_wide(value, pad_length) ==
  LET sign == IF startswith(value, "-") THEN "d" ELSE "c"
      digits == zfill(replace(replace(value, "."), "-"), pad_length * 2)
  IN  fromhex(digits \o <<sign>>)

\* the packed-decimal branch of pack
pack_pd(value, pad_length) ==
  LET sign == IF startswith(value, "-") THEN "d" ELSE "c"
      digits == zfill(replace(replace(value, "."), "-"), pad_length * 2 - 1)
  IN  fromhex(digits \o <<sign>>)

\* the unsigned binary branch of pack
pack_bi(value) ==
  IF int(value).kind = "raise" THEN int(value) ELSE struct_pack_Q(int(value).val)

\* the signed binary branch of pack
pack_bi_signed(value) ==
  IF int(value).kind = "raise" THEN int(value) ELSE struct_pack_q(int(value).val)

\* the zoned branch of pack padding without room for the terminal character
pack_zd_wide(value, pad_length) ==
  LET sign == IF startswith(value, "-") THEN "}" ELSE "{"
      digits == zfill(replace(replace(value, "."), "-"), pad_length)
  IN  encode(digits \o <<sign>>)

\* the zoned branch of pack
pack_zd(value, pad_length) ==
  LET sign == IF startswith(value, "-") THEN "}" ELSE "{"
      digits == zfill(replace(replace(value, "."), "-"), pad_length - 1)
  IN  encode(digits \o <<sign>>)

pack(value, type, dec_places, pad_length) ==
  IF lower(type) = "ch" THEN pack_ch(value, pad_length)
  ELSE IF lower(type) = "pd" \/ lower(type) = "pd+" THEN pack_pd(value, pad_length)
  ELSE IF lower(type) = "bi" THEN pack_bi(value)
  ELSE IF lower(type) = "bi+" THEN pack_bi_signed(value)
  ELSE IF lower(type) = "zd" \/ lower(type) = "zd+" THEN pack_zd(value, pad_length)
  ELSE IF lower(type) = "hex" THEN fromhex(value)
  ELSE [Exit EXCEPT !.val = <<"Unsupported format:", type>>]

(***************************************************************************)
(* The inputs the calls are made with.                                     *)
(***************************************************************************)
RECURSIVE SeqsUpTo(_, _)
SeqsUpTo(S, n) ==
  IF n = 0 THEN {<<>>}
  ELSE LET shorter == SeqsUpTo(S, n - 1)
       IN  shorter \cup {Append(s, c) : s \in shorter, c \in S}

ValueChars == {"1", "2", "-", "."}

ExampleValues ==
  { <<"1", "2", "3", "4", "5">>,
    <<"-", "1", "2", "3", "4", "5">>,
    <<"1", "2", "a", "4", "5">>,
    <<"1", "g">>,
    <<"+", "1", "2">>,
    <<"H", "E", "L", "L", "O">>,
    <<"H", "I", " ">>,
    <<"U+20AC">>,
    <<"9", "2", "2", "3", "3", "7", "2", "0", "3", "6", "8", "5", "4", "7", "7", "5", "8", "0", "7">>,
    <<"9", "2", "2", "3", "3", "7", "2", "0", "3", "6", "8", "5", "4", "7", "7", "5", "8", "0", "8">>,
    <<"-", "9", "2", "2", "3", "3", "7", "2", "0", "3", "6", "8", "5", "4", "7", "7", "5", "8", "0", "8">>,
    <<"1", "8", "4", "4", "6", "7", "4", "4", "0", "7", "3", "7", "0", "9", "5", "5", "1", "6", "1", "5">>,
    <<"1", "8", "4", "4", "6", "7", "4", "4", "0", "7", "3", "7", "0", "9", "5", "5", "1", "6", "1", "6">> }

Values == SeqsUpTo(ValueChars, MaxValLen) \cup ExampleValues

\* 0x00, 0x12, 0x3d, 0x40, 0x80, 0xf1
BufferBytes == {0, 18, 61, 64, 128, 241}

\* 0xf0f0f1c1, 0xf1d2, 0x12345c, 0x12345d, 0x01234b
ExampleBuffers ==
  { <<240, 240, 241, 193>>, <<241, 210>>, <<18, 52, 92>>, <<18, 52, 93>>, <<1, 35, 75>> }

\* binary fields of 2 .. MaxFill + 2 bytes around the sign boundary
LongBuffers ==
  { <<b>> \o Repeat(255, k) \o <<t>> : b \in {127, 128}, k \in 0..MaxFill, t \in {0, 255} }

Buffers == SeqsUpTo(BufferBytes, MaxBufLen) \cup ExampleBuffers \cup LongBuffers

\* the field lengths: 0 .. MaxPad, and the 6 of the zoned examples
PadLengths == 0..MaxPad \cup {6}

TypeTags == {"ch", "pd", "pd+", "bi", "bi+", "zd", "zd+", "hex", "bit", "PD+", "xx"}

(***************************************************************************)
(* The caller: one call of pack, unpack or add_dec_places, optionally      *)
(* followed by the inverse call on what the first returned.                *)
(***************************************************************************)
NoArgs ==
  [op |-> "none", value |-> <<>>, bytes |-> <<>>, type |-> "", dec_places |-> 0,
   pad_length |-> 0, remove_lv |-> FALSE]

Init ==
  /\ pc = "idle"
  /\ args = NoArgs
  /\ mid = NoResult
  /\ result = NoResult
  /\ stdout = <<>>

\* the caller's state after a call that ended with outcome r
After(r, next) ==
  /\ result' = r
  /\ pc' = IF r.kind = "exit" THEN "exited" ELSE next
  /\ stdout' = IF r.kind = "exit" THEN stdout \o r.val ELSE stdout

CallPack ==
  /\ pc = "idle"
  /\ \E v \in Values, t \in TypeTags, d \in 0..MaxDec, p \in PadLengths :
       /\ args' = [NoArgs EXCEPT !.op = "pack", !.value = v, !.type = t,
                                 !.dec_places = d, !.pad_length = p]
       /\ After(pack(v, t, d, p), "packed")
  /\ mid' = NoResult

CallUnpack ==
  /\ pc = "idle"
  /\ \E b \in Buffers, t \in TypeTags, d \in 0..MaxDec, lv \in BOOLEAN, sp \in BOOLEAN :
       /\ args' = [NoArgs EXCEPT !.op = "unpack", !.bytes = b, !.type = t,
                                 !.dec_places = d, !.remove_lv = lv]
       /\ After(unpack(b, t, d, lv, sp), "unpacked")
  /\ mid' = NoResult

CallAddDecPlaces ==
  /\ pc = "idle"
  /\ \E v \in Values, n \in 0..MaxDec :
       /\ args' = [NoArgs EXCEPT !.op = "add_dec_places", !.value = v, !.dec_places = n]
       /\ After(StrResult(add_dec_places(v, n)), "inserted")
  /\ mid' = NoResult

\* unpack(pack(v, type, d, p), type, d, lv)
UnpackPacked ==
  /\ pc = "packed"
  /\ result.kind = "bytes"
  /\ \E lv \in BOOLEAN, sp \in BOOLEAN :
       /\ args' = [args EXCEPT !.remove_lv = lv]
       /\ After(unpack(result.val, args.type, args.dec_places, lv, sp), "roundtrip")
  /\ mid' = result

\* pack(unpack(buf, type, d, lv), type, d, p)
PackUnpacked ==
  /\ pc = "unpacked"
  /\ result.kind = "str"
  /\ \E p \in PadLengths :
       /\ args' = [args EXCEPT !.pad_length = p]
       /\ After(pack(result.val, args.type, args.dec_places, p), "repacked")
  /\ mid' = result

Return ==
  /\ pc \in {"packed", "unpacked", "inserted", "roundtrip", "repacked"}
  /\ pc' = "idle"
  /\ args' = NoArgs
  /\ mid' = NoResult
  /\ result' = NoResult
  /\ UNCHANGED stdout

Next ==
  \/ CallPack
  \/ CallUnpack
  \/ CallAddDecPlaces
  \/ UnpackPacked
  \/ PackUnpacked
  \/ Return

Spec == Init /\ [][Next]_vars

TypeOK ==
  /\ pc \in {"idle", "packed", "unpacked", "inserted", "roundtrip", "repacked", "exited"}
  /\ result.kind \in {"none", "str", "bytes", "raise", "exit"}
  /\ args.op \in {"none", "pack", "unpack", "add_dec_places"}

(***************************************************************************)
(* Vocabulary of the properties.                                           *)
(***************************************************************************)
NotSignOrPoint(c) == c \notin {".", "-"}

\* the characters of v other than '.' and '-'
DigitsOf(v) == SelectSeq(v, NotSignOrPoint)

AllDecimal(s) == \A i \in 1..Len(s) : s[i] \in DecimalDigits

IsNegative(v) == v # <<>> /\ v[1] = "-"

Unsigned(v) == IF IsNegative(v) THEN SubSeq(v, 2, Len(v)) ELSE v

\* v is a decimal string with d decimal places: an optional leading '-', digits,
\* and a '.' before the last d digits exactly when d > 0
Normalized(v, d) ==
  LET u == Unsigned(v)
  IN  /\ Len(u) >= 1
      /\ IF d = 0 THEN AllDecimal(u)
         ELSE /\ Len(u) >= d + 1
              /\ u[Len(u) - d] = "."
              /\ AllDecimal(SubSeq(u, 1, Len(u) - d - 1))
              /\ AllDecimal(SubSeq(u, Len(u) - d + 1, Len(u)))

SignedFormats == {"pd+", "zd+", "bi+"}
RoundTripFormats == {"ch", "zd", "zd+", "bi", "bi+", "pd", "pd+", "hex"}
FormatTags == {"ch", "zd", "zd+", "bi", "bi+", "pd", "pd+", "hex", "bit"}
InsertingFormats == {"zd", "zd+", "bi", "bi+", "pd", "pd+"}
DigitFormats == {"zd", "zd+", "bi", "pd", "pd+"}

\* v with d decimal places is a value the field of format t and length p holds
Representable(v, t, d, p) ==
  /\ t \in RoundTripFormats
  /\ Normalized(v, d)
  /\ IsNegative(v) => t \in SignedFormats
  /\ t \in {"pd", "pd+"} => Len(DigitsOf(v)) = 2 * p - 1
  /\ t \in {"zd", "zd+"} => Len(DigitsOf(v)) = p - 1
  /\ t \in {"bi", "bi+"} => /\ Len(DigitsOf(v)) <= 18
                            /\ DigitsOf(v)[1] # "0" \/ v = <<"0">>
  /\ t = "hex" => d = 0 /\ Len(v) % 2 = 0
  /\ t = "ch" => p <= Len(v)

\* v has a character that is neither a digit, a leading '-' nor a '.'
HasNonDigit(v) ==
  \E i \in 1..Len(v) : v[i] \notin DecimalDigits /\ v[i] # "." /\ ~(i = 1 /\ v[i] = "-")

\* 2^(8 * n)
TwoPow8(n) == MkInt(FALSE, <<1>> \o Repeat(0, n))

\* the two's-complement value of big-endian bytes, as decimal text
TwosComplement(bytes) ==
  IF bytes[1] >= 128
  THEN str(IntSub(MkInt(FALSE, Normalize(bytes)), TwoPow8(Len(bytes))))
  ELSE str(MkInt(FALSE, Normalize(bytes)))

(***************************************************************************)
(* C1: for every format among text, zoned, signed zoned, binary, signed    *)
(* binary, packed, signed packed and hex, and every normalized decimal     *)
(* string v the field holds, unpack(pack(v, fmt, d, p), fmt, d, lv)        *)
(* returns exactly v.                                                      *)
(***************************************************************************)
C1_RoundTrip ==
  (pc = "roundtrip"
     /\ Representable(args.value, lower(args.type), args.dec_places, args.pad_length))
  => (result.kind = "str" /\ result.val = args.value)

(***************************************************************************)
(* C2: a call of unpack or pack with a format tag that is not recognized   *)
(* returns an error to the caller (any exception other than SystemExit is  *)
(* taken for the UnsupportedFormatError) and does not end the process.     *)
(***************************************************************************)
C2_UnsupportedFormatError ==
  (args.op \in {"pack", "unpack"} /\ lower(args.type) \notin FormatTags)
  => (pc # "exited" /\ result.kind = "raise")

(***************************************************************************)
(* C3 as stated: for every value string v and every padLength >= 1, pack   *)
(* to packed or signed packed gives exactly padLength bytes: the digits of *)
(* v zero-padded on the left to 2 * padLength - 1 hex digits, then the     *)
(* sign nibble 'd' when v starts with '-' and 'c' otherwise.               *)
(***************************************************************************)
PackedLayout(v, p, r) ==
  /\ r.kind = "bytes"
  /\ Len(r.val) = p
  /\ \A i \in 1..Len(r.val) :
       LET want == Repeat("0", 2 * p - 1 - Len(DigitsOf(v))) \o DigitsOf(v)
                     \o <<IF IsNegative(v) THEN "d" ELSE "c">>
       IN  /\ Len(want) = 2 * p
           /\ want[2 * i - 1] = HexDigits[(r.val[i] \div 16) + 1]
           /\ want[2 * i] = HexDigits[(r.val[i] % 16) + 1]

C3_PackedEveryValue ==
  (pc = "packed" /\ lower(args.type) \in {"pd", "pd+"} /\ args.pad_length >= 1)
  => PackedLayout(args.value, args.pad_length, result)

(***************************************************************************)
(* C3 as amended: the same, for every value string v whose characters      *)
(* other than '.' and '-' are decimal digits, at most 2 * padLength - 1 of *)
(* them.                                                                   *)
(***************************************************************************)
C3_PackedLayout ==
  (pc = "packed" /\ lower(args.type) \in {"pd", "pd+"} /\ args.pad_length >= 1
     /\ AllDecimal(DigitsOf(args.value))
     /\ Len(DigitsOf(args.value)) <= 2 * args.pad_length - 1)
  => PackedLayout(args.value, args.pad_length, result)

\* pack("-12345", "pd+", pad_length=3) has returned 0x12 0x34 0x5d
C3_Witness ==
  /\ pc = "packed"
  /\ args.type = "pd+"
  /\ args.value = <<"-", "1", "2", "3", "4", "5">>
  /\ args.pad_length = 3
  /\ result = BytesResult(<<18, 52, 93>>)

(***************************************************************************)
(* C4: for every non-empty buffer of any length L, unpack as signed binary *)
(* with no decimal places returns the two's-complement value of the        *)
(* big-endian bytes: 2^(8*L) is subtracted exactly when the high bit of    *)
(* the first byte is set.                                                  *)
(***************************************************************************)
C4_TwosComplement ==
  (pc = "unpacked" /\ lower(args.type) = "bi+" /\ args.dec_places = 0 /\ args.bytes # <<>>)
  => (result.kind = "str" /\ result.val = TwosComplement(args.bytes))

(***************************************************************************)
(* C5 as stated: for every value string v and every padLength >= 1, pack   *)
(* to zoned or signed zoned gives exactly padLength bytes: the codepage    *)
(* encoding of the digits of v zero-padded on the left to padLength - 1    *)
(* digits, then the terminal zone character, the negative one when v       *)
(* starts with '-' and the positive one otherwise.                         *)
(***************************************************************************)
ZonedLayout(v, p, r) ==
  /\ r.kind = "bytes"
  /\ Len(r.val) = p
  /\ LET want == Repeat("0", p - 1 - Len(DigitsOf(v))) \o DigitsOf(v)
                   \o <<IF IsNegative(v) THEN "}" ELSE "{">>
     IN  /\ Len(want) = p
         /\ \A i \in 1..p : Cp037[r.val[i] + 1] = want[i]

C6_DecimalPlacesOverflow ==
  (pc = "unpacked" /\ lower(args.type) \in InsertingFormats
     /\ insertion_input(args.bytes, args.type).kind = "str"
     /\ args.dec_places > Len(insertion_input(args.bytes, args.type).val))
  => result.kind = "raise"

(***************************************************************************)
(* C7: for every non-empty buffer buf, unpack(buf, "hex") is the lowercase *)
(* hexadecimal text of buf, 2 * len(buf) characters whatever the           *)
(* decimal-place count, and pack(unpack(buf, "hex"), "hex") equals buf.    *)
(***************************************************************************)
C7_HexRoundTrip ==
  /\ (pc = "unpacked" /\ lower(args.type) = "hex" /\ args.bytes # <<>>)
     => /\ result.kind = "str"
        /\ Len(result.val) = 2 * Len(args.bytes)
        /\ \A i \in 1..Len(args.bytes) :
             /\ result.val[2 * i - 1] = HexDigits[(args.bytes[i] \div 16) + 1]
             /\ result.val[2 * i] = HexDigits[(args.bytes[i] % 16) + 1]
  /\ (pc = "repacked" /\ lower(args.type) = "hex" /\ args.bytes # <<>>)
     => result = BytesResult(args.bytes)

\* 0x12 0x3d has been unpacked as hex with two decimal places and packed again
C7_Witness ==
  /\ pc = "repacked"
  /\ args.type = "hex"
  /\ args.bytes = <<18, 61>>
  /\ args.dec_places = 2
  /\ mid = StrResult(<<"1", "2", "3", "d">>)
  /\ result = BytesResult(<<18, 61>>)

(***************************************************************************)
(* C8: malformed input is rejected as a whole and no result is returned    *)
(* (any exception is taken for the MalformedInputError): unpack of a       *)
(* zero-length buffer as signed zoned, and pack into zoned, signed zoned,  *)
(* packed, signed packed or binary of a value with a character that is     *)
(* neither a digit, a leading '-' nor a '.'.                               *)
(***************************************************************************)
C8_MalformedInput ==
  /\ (pc = "unpacked" /\ lower(args.type) = "zd+" /\ args.bytes = <<>>)
     => result.kind = "raise"
  /\ (pc = "packed" /\ lower(args.type) \in DigitFormats
        /\ HasNonDigit(args.value))
     => result.kind = "raise"

(***************************************************************************)
(* C9: for every string s and count n with 0 <= n <= len(s),               *)
(* add_dec_places(s, n) is s when n = 0, and otherwise the first           *)
(* len(s) - n characters of s, a '.', and the last n characters of s: one  *)
(* character more than s, n characters after the '.', and s again once the *)
(* '.' is removed.                                                         *)
(***************************************************************************)
C9_DecimalPointInsertion ==
  (pc = "inserted" /\ args.dec_places <= Len(args.value))
  => LET s == args.value
         n == args.dec_places
         r == result.val
     IN  /\ result.kind = "str"
         /\ n = 0 => r = s
         /\ n > 0 => /\ Len(r) = Len(s) + 1
                     /\ r[Len(s) - n + 1] = "."
                     /\ \A i \in 1..(Len(s) - n) : r[i] = s[i]
                     /\ \A i \in (Len(s) - n + 1)..Len(s) : r[i + 1] = s[i]

\* add_dec_places("121", 2) has returned "1.21"
C9_Witness ==
  /\ pc = "inserted"
  /\ args.value = <<"1", "2", "1">>
  /\ args.dec_places = 2
  /\ result = StrResult(<<"1", ".", "2", "1">>)

(***************************************************************************)
(* C10: for every unpack of a packed, signed packed, signed zoned or       *)
(* signed binary buffer that decodes as negative, with a decimal-place     *)
(* count not above the length of the string handed to add_dec_places, the  *)
(* returned string starts with '-' and has its '.' after it.               *)
(***************************************************************************)
C10_SignFirst ==
  (pc = "unpacked" /\ lower(args.type) \in {"pd", "pd+", "zd+", "bi+"}
     /\ insertion_input(args.bytes, args.type).kind = "str"
     /\ IsNegative(insertion_input(args.bytes, args.type).val)
     /\ args.dec_places <= Len(insertion_input(args.bytes, args.type).val))
  => /\ result.kind = "str"
     /\ IsNegative(result.val)
     /\ \A i \in 1..Len(result.val) : result.val[i] = "." => i > 1
====
